---- MODULE Spec2Model ----
(***************************************************************************)
(* The appraisal workflow of App.tsx (an eight-state React component), the *)
(* collection it persists in localStorage, and the two gateway functions   *)
(* of services/geminiService.ts.                                           *)
(*                                                                         *)
(* JavaScript objects are functions with a domain of field names: a field  *)
(* that is absent from the object is absent from the domain.  A React      *)
(* event handler runs to completion and the component re-renders before    *)
(* the next event, so every handler is one atomic action; an async         *)
(* function is split at its await: the part before it is one action, the   *)
(* continuation another, and what the continuation reads from its closure  *)
(* is stored with the pending call.                                        *)
(***************************************************************************)
EXTENDS Integers, Sequences, FiniteSets, TLC

VARIABLES
    mounted,        \* has the mount effect (load of the collection) run
    state,          \* App.tsx:11  AppState
    images,         \* App.tsx:12  string[]
    purchasePrice,  \* App.tsx:13  string
    currency,       \* App.tsx:14  string
    identity,       \* App.tsx:15  WatchIdentity | null
    marketData,     \* App.tsx:16  MarketData | null
    report,         \* App.tsx:17  AppraisalReport | null
    error,          \* App.tsx:18  string | null, a message kept as [message |-> text]
    collection,     \* App.tsx:21  AppraisalReport[]
    storage,        \* localStorage slot 'horology_collection'
    encodings,      \* pending Promise.all of FileReader reads (App.tsx:103-116)
    idCalls,        \* pending identifyWatchFromImage calls (App.tsx:124)
    valCalls,       \* pending getMarketValuation calls (App.tsx:148)
    uuids,          \* number of ids crypto.randomUUID has handed out
    uploads,        \* number of file batches accepted so far
    lastOp,         \* the handler that ran last, and what it was given
    isGenerating,   \* ReportView's isGenerating (ReportView.tsx:16)
    exportJob       \* the export the mounted ReportView is running, if any

vars == << mounted, state, images, purchasePrice, currency, identity, marketData,
           report, error, collection, storage, encodings, idCalls, valCalls,
           uuids, uploads, lastOp, isGenerating, exportJob >>

(***************************************************************************)
(* Bounds of the model.                                                    *)
(***************************************************************************)
\* asynchronous operations (encodings and gateway calls) outstanding at once
MaxPending == 2
\* reports assembled in one session
MaxReports == 1
\* grounding chunks a valuation response carries at most
MaxChunks == 8
\* file batches accepted in one session
MaxUploads == 2
\* records in the slot the collection view is studied with
MaxShown == 3

(***************************************************************************)
(* Program constants.                                                      *)
(***************************************************************************)
\* App.tsx:97  files.length > 3
MaxPhotos == 3
\* geminiService.ts:134  sources.slice(0, 5)
SourceCap == 5

NULL == [null |-> TRUE]

IDLE == "IDLE"
ANALYZING_IMAGE == "ANALYZING_IMAGE"
IDENTITY_CONFIRMED == "IDENTITY_CONFIRMED"
SEARCHING_MARKET == "SEARCHING_MARKET"
REPORT_READY == "REPORT_READY"
VIEWING_COLLECTION == "VIEWING_COLLECTION"
VIEWING_COLLECTION_DETAIL == "VIEWING_COLLECTION_DETAIL"
ERROR == "ERROR"

AppState == { IDLE, ANALYZING_IMAGE, IDENTITY_CONFIRMED, SEARCHING_MARKET,
              REPORT_READY, VIEWING_COLLECTION, VIEWING_COLLECTION_DETAIL, ERROR }

\* geminiService.ts:58 and :142, the messages the two gateways throw
IdentifyErrorMessage == "cannot identify the watch in the image"
ValuationErrorMessage == "cannot fetch market data"

(***************************************************************************)
(* JavaScript helpers.                                                     *)
(***************************************************************************)
Has(obj, f) == f \in DOMAIN obj

\* { ...a, ...b }: the fields of a, overwritten and extended by those of b
Spread(a, b) ==
    [f \in DOMAIN a \cup DOMAIN b |-> IF f \in DOMAIN b THEN b[f] ELSE a[f]]

\* Array.prototype.slice(from, to) with 0 <= from, 0-based, to exclusive
Slice(s, from, to) ==
    LET hi == IF to < Len(s) THEN to ELSE Len(s)
    IN  IF from >= hi THEN << >> ELSE [i \in 1..(hi - from) |-> s[from + i]]

\* Array.prototype.filter((_, i) => i !== k), k 0-based
FilterIndexNot(s, k) ==
    LET keep == { i \in 1..Len(s) : i - 1 # k }
        pos(j) == CHOOSE i \in keep : Cardinality({ h \in keep : h < i }) = j - 1
    IN  [j \in 1..Cardinality(keep) |-> s[pos(j)]]

\* Array.prototype.some(item => item.id === id)
SomeId(coll, id) == \E i \in 1..Len(coll) : coll[i].id = id

RemoveAt(s, i) == [j \in 1..(Len(s) - 1) |-> IF j < i THEN s[j] ELSE s[j + 1]]

\* FileReader.readAsDataURL: "data:<mime>;base64,<payload>", kept as its two
\* comma-separated parts
readAsDataURL(file) == << "data:image/jpeg;base64", file >>

\* img.split(',')[1]
StripPrefix(img) == img[2]

\* fileArray.map(file => new Promise(... readAsDataURL ...)), all resolved
readAll(files) == [i \in 1..Len(files) |-> readAsDataURL(files[i])]

\* base64Images.map(img => img.split(',')[1])
stripAll(base64Images) == [i \in 1..Len(base64Images) |-> StripPrefix(base64Images[i])]

(***************************************************************************)
(* Text: response.text and the localStorage slot hold text.  A text is the *)
(* empty string, text that is no JSON, or the JSON text of a value.        *)
(***************************************************************************)
EmptyText == [empty |-> TRUE]
MalformedText == [malformed |-> TRUE]
JSONstringify(v) == [json |-> v]
JSONparses(text) == Has(text, "json")
JSONparse(text) == text.json
Truthy(text) == text # EmptyText /\ text # NULL

(***************************************************************************)
(* What the outside supplies: files, gateway responses, the persisted slot *)
(***************************************************************************)
\* the batches a user selects in the file dialog (e.target.files)
FileBatches == { << >>, << "A", "B" >>, << "A", "B", "C", "D" >> }

\* the object an identification response's text encodes
IdentityObject ==
    [ brand |-> "Omega", model |-> "Speedmaster", referenceNumber |-> "",
      estimatedYear |-> "", confidence |-> 90, description |-> "x" ]
IdentityWithIndex(k) == Spread(IdentityObject, [bestImageIndex |-> k])

\* a response of ai.models.generateContent: it threw, or it carries a text
\* and (for the search-grounded call) grounding chunks
Threw == [threw |-> TRUE]
IdentifyResponses ==
    { Threw, [text |-> EmptyText],
      [text |-> JSONstringify(IdentityObject)],
      [text |-> JSONstringify(IdentityWithIndex(1))] }

MarketObject(cur) ==
    [ lowPrice |-> 55000, highPrice |-> 65000, averagePrice |-> 60000,
      currency |-> cur, priceSource |-> "Chrono24", trend |-> "stable",
      history |-> "h", reviewsSummary |-> "r",
      pros |-> << "a" >>, cons |-> << "b" >> ]

\* groundingChunks: chunk i is a web citation unless i is in `plain`
WebChunk(i) == [web |-> [title |-> i, uri |-> i]]
PlainChunk(i) == [retrievedContext |-> i]
Chunks(n, plain) == [i \in 1..n |-> IF i \in plain THEN PlainChunk(i) ELSE WebChunk(i)]

Grounded(text, chunks) ==
    [text |-> text, candidates |-> << [groundingMetadata |-> [groundingChunks |-> chunks]] >>]

ValuationResponses ==
    { Threw, [text |-> JSONstringify(MarketObject("HKD"))],
      Grounded(JSONstringify(MarketObject("HKD")), Chunks(MaxChunks, {2})) }

\* new Date().toLocaleDateString('zh-HK'), d/m/yyyy, on the day of the session
toLocaleDateString == << 12, 11, 2026 >>

\* records an earlier session left in the slot: one written before the
\* image list, pros, cons, currency and priceSource existed, one current
LegacyRecord ==
    [ id |-> "s1", date |-> << 3, 5, 2023 >>, imageUrl |-> readAsDataURL("L"),
      purchasePrice |-> 30000, identity |-> IdentityObject,
      marketData |-> [ lowPrice |-> 35000, highPrice |-> 45000, averagePrice |-> 40000,
                       trend |-> "rising", history |-> "h", reviewsSummary |-> "r",
                       sources |-> << >> ] ]
CurrentRecord ==
    [ id |-> "s2", date |-> << 9, 8, 2025 >>, imageUrls |-> << readAsDataURL("M") >>,
      purchasePrice |-> 1000, identity |-> IdentityWithIndex(0),
      marketData |-> Spread(MarketObject("USD"), [sources |-> << >>]) ]

\* what localStorage.getItem('horology_collection') returns at start
InitialSlots == { NULL, JSONstringify(<< LegacyRecord >>) }

(***************************************************************************)
(* services/geminiService.ts                                               *)
(***************************************************************************)
Resolved(v) == [resolved |-> v]
\* a rejection with new Error(message)
Rejected(message) == [rejected |-> [message |-> message]]

\* responseSchema.required of the two requests (geminiService.ts:47, 120)
RequiredIdentityFields == { "brand", "model", "description", "bestImageIndex" }
RequiredMarketFields ==
    { "averagePrice", "currency", "history", "reviewsSummary", "pros", "cons", "priceSource" }

\* identifyWatchFromImage, given what generateContent answered
identifyWatchFromImage(response) ==
    IF Has(response, "threw") THEN Rejected(IdentifyErrorMessage)
    ELSE IF Truthy(response.text)
         THEN IF JSONparses(response.text)
              THEN Resolved(JSONparse(response.text))
              ELSE Rejected(IdentifyErrorMessage)
         ELSE Rejected(IdentifyErrorMessage)

\* response.candidates?.[0]?.groundingMetadata?.groundingChunks
GroundingChunks(response) ==
    IF Has(response, "candidates") /\ Len(response.candidates) > 0
       /\ Has(response.candidates[1], "groundingMetadata")
       /\ Has(response.candidates[1].groundingMetadata, "groundingChunks")
    THEN response.candidates[1].groundingMetadata.groundingChunks
    ELSE << >>

\* ?.map(chunk => chunk.web ? { title, uri } : null).filter(s => s !== null) || []
GroundingSources(response) ==
    LET web == SelectSeq(GroundingChunks(response), LAMBDA chunk : Has(chunk, "web"))
    IN  [i \in 1..Len(web) |-> [title |-> web[i].web.title, uri |-> web[i].web.uri]]

\* getMarketValuation that trusts the currency of the response
getMarketValuation_TrustsResponse(id, price, cur, response) ==
    IF Has(response, "threw") THEN Rejected(ValuationErrorMessage)
    ELSE IF Truthy(response.text) /\ JSONparses(response.text)
         THEN Resolved(Spread(JSONparse(response.text),
                              [ sources |-> Slice(GroundingSources(response), 0, SourceCap) ]))
         ELSE Rejected(ValuationErrorMessage)

\* getMarketValuation that attaches every source
getMarketValuation_NoCap(id, price, cur, response) ==
    IF Has(response, "threw") THEN Rejected(ValuationErrorMessage)
    ELSE IF Truthy(response.text) /\ JSONparses(response.text)
         THEN Resolved(Spread(JSONparse(response.text),
                              [ currency |-> cur, sources |-> GroundingSources(response) ]))
         ELSE Rejected(ValuationErrorMessage)

\* getMarketValuation, given what generateContent answered
getMarketValuation(id, price, cur, response) ==
    IF Has(response, "threw") THEN Rejected(ValuationErrorMessage)
    ELSE IF Truthy(response.text)
         THEN IF JSONparses(response.text)
              THEN Resolved(Spread(JSONparse(response.text),
                                   [ currency |-> cur,
                                     sources |-> Slice(GroundingSources(response), 0, SourceCap) ]))
              ELSE Rejected(ValuationErrorMessage)
         ELSE Rejected(ValuationErrorMessage)

(***************************************************************************)
(* App.tsx                                                                 *)
(***************************************************************************)
\* lastOp: the handler that ran, whether it wrote the slot, and the state
\* it ran in
Op(name, wrote) == [op |-> name, wrote |-> wrote, from |-> state]

Pending == Len(encodings) + Len(idCalls) + Len(valCalls)

\* item.x || fallback, for a text field (undefined and '' are falsy)
OrText(obj, f, fallback) == IF Has(obj, f) /\ obj[f] # "" THEN obj[f] ELSE fallback
\* item.x || fallback, for an array field (every array is truthy)
OrArray(obj, f, fallback) == IF Has(obj, f) THEN obj[f] ELSE fallback

\* a migration that adds the legacy image to the image list each time
migrateItem_Appends(item) ==
    Spread(item,
        [ imageUrls |-> OrArray(item, "imageUrls", << >>)
                            \o (IF Has(item, "imageUrl") THEN << item.imageUrl >> ELSE << >>),
          marketData |-> Spread(item.marketData,
                [ pros |-> OrArray(item.marketData, "pros", << >>),
                  cons |-> OrArray(item.marketData, "cons", << >>),
                  currency |-> OrText(item.marketData, "currency", "HKD"),
                  priceSource |-> OrText(item.marketData, "priceSource", "Market Data") ]) ])

\* the migration of one persisted item (App.tsx:36-46)
migrateItem(item) ==
    Spread(item,
        [ imageUrls |-> OrArray(item, "imageUrls",
                                IF Has(item, "imageUrl") THEN << item.imageUrl >> ELSE << >>),
          marketData |-> Spread(item.marketData,
                [ pros |-> OrArray(item.marketData, "pros", << >>),
                  cons |-> OrArray(item.marketData, "cons", << >>),
                  currency |-> OrText(item.marketData, "currency", "HKD"),
                  priceSource |-> OrText(item.marketData, "priceSource", "Market Data") ]) ])

\* parsedData.map(item => ...)
migrate(parsedData) == [i \in 1..Len(parsedData) |-> migrateItem(parsedData[i])]

\* item.marketData.pros of an item without marketData is a TypeError
migrationThrows(parsedData) ==
    \E i \in 1..Len(parsedData) : ~Has(parsedData[i], "marketData")

\* a ReportView is rendered: the REPORT_READY region (App.tsx:335) and the
\* detail region (App.tsx:345) each hold one of their own
reportViewShown == state \in { REPORT_READY, VIEWING_COLLECTION_DETAIL } /\ report # NULL

\* the render that follows a step of App: the ReportView of a region that
\* stays rendered keeps its state; one that is unmounted loses it, and one
\* that is mounted starts with isGenerating false.  What an export of an
\* unmounted ReportView still does reaches no state of the program.
reportViewFollows ==
    IF reportViewShown /\ state' = state /\ report' # NULL
    THEN UNCHANGED << isGenerating, exportJob >>
    ELSE isGenerating' = FALSE /\ exportJob' = NULL

\* the component before its first effect: the useState initial values
Boot(slot) ==
    /\ mounted = FALSE
    /\ state = IDLE
    /\ images = << >>
    /\ purchasePrice = << >>
    /\ currency = "HKD"
    /\ identity = NULL
    /\ marketData = NULL
    /\ report = NULL
    /\ error = NULL
    /\ collection = << >>
    /\ storage = slot
    /\ encodings = << >>
    /\ idCalls = << >>
    /\ valCalls = << >>
    /\ uuids = 0
    /\ uploads = 0
    /\ lastOp = Op("init", FALSE)
    /\ isGenerating = FALSE
    /\ exportJob = NULL

Init == \E slot \in InitialSlots : Boot(slot)

workflow == << state, images, purchasePrice, identity, marketData, report, error >>
async == << encodings, idCalls, valCalls >>

\* a load that writes the migrated records back to the slot
LoadCollection_Persists ==
    /\ ~mounted
    /\ mounted' = TRUE
    /\ IF Truthy(storage) /\ JSONparses(storage) /\ ~migrationThrows(JSONparse(storage))
       THEN /\ collection' = migrate(JSONparse(storage))
            /\ storage' = JSONstringify(collection')
       ELSE UNCHANGED << collection, storage >>
    /\ lastOp' = Op("load", FALSE)
    /\ UNCHANGED << workflow, currency, async, uuids, uploads >>
    /\ reportViewFollows

\* a load that exposes the records that can be migrated and skips the others
LoadCollection_KeepsMigratable ==
    /\ ~mounted
    /\ mounted' = TRUE
    /\ collection' =
         IF Truthy(storage) /\ JSONparses(storage)
         THEN migrate(SelectSeq(JSONparse(storage), LAMBDA item : Has(item, "marketData")))
         ELSE collection
    /\ lastOp' = Op("load", FALSE)
    /\ UNCHANGED << workflow, currency, storage, async, uuids, uploads >>
    /\ reportViewFollows

\* useEffect(() => { ... }, []): load the collection on mount
LoadCollection ==
    /\ ~mounted
    /\ mounted' = TRUE
    /\ collection' =
         IF Truthy(storage) /\ JSONparses(storage) /\ ~migrationThrows(JSONparse(storage))
         THEN migrate(JSONparse(storage))
         ELSE collection
    /\ lastOp' = Op("load", FALSE)
    /\ UNCHANGED << workflow, currency, storage, async, uuids, uploads >>
    /\ reportViewFollows

\* saveCollection without the localStorage.setItem
saveCollection_MemoryOnly(newCollection) ==
    /\ collection' = newCollection
    /\ storage' = storage

\* saveCollection(newCollection)
saveCollection(newCollection) ==
    /\ collection' = newCollection
    /\ storage' = JSONstringify(newCollection)

\* handleSaveToCollection without its guard: the report is prepended even
\* when its id is present
handleSaveToCollection_NoGuard(newReport) ==
    /\ saveCollection(<< newReport >> \o collection)
    /\ lastOp' = Op("save", TRUE)

\* handleSaveToCollection that persists on every call
handleSaveToCollection_AlwaysPersists(newReport) ==
    /\ saveCollection(IF SomeId(collection, newReport.id) THEN collection
                      ELSE << newReport >> \o collection)
    /\ lastOp' = Op("save", TRUE)

\* handleSaveToCollection that puts the new report behind the records held
handleSaveToCollection_AtEnd(newReport) ==
    IF SomeId(collection, newReport.id)
    THEN /\ UNCHANGED << collection, storage >>
         /\ lastOp' = Op("save", FALSE)
    ELSE /\ saveCollection(collection \o << newReport >>)
         /\ lastOp' = Op("save", TRUE)

\* handleSaveToCollection(newReport), the report view's onSave(report)
handleSaveToCollection(newReport) ==
    IF SomeId(collection, newReport.id)
    THEN /\ UNCHANGED << collection, storage >>
         /\ lastOp' = Op("save", FALSE)
    ELSE /\ saveCollection(<< newReport >> \o collection)
         /\ lastOp' = Op("save", TRUE)

\* the report view's save button (ReportView.tsx:137).  The button carries
\* disabled={isSaved}; the handler does not rely on it and tests membership
\* itself (App.tsx:60), so the action is the handler on the report shown,
\* saved or not.
SaveToCollection ==
    /\ mounted
    /\ state = REPORT_READY /\ report # NULL
    /\ handleSaveToCollection(report)
    /\ UNCHANGED << mounted, workflow, currency, async, uuids, uploads >>
    /\ reportViewFollows

\* the filter with its test inverted
filterOutId_Inverted(coll, id) == SelectSeq(coll, LAMBDA item : item.id = id)

\* collection.filter(item => item.id !== id)
filterOutId(coll, id) == SelectSeq(coll, LAMBDA item : item.id # id)

\* handleDeleteFromCollection(id)
handleDeleteFromCollection(id) ==
    /\ saveCollection(filterOutId(collection, id))
    /\ lastOp' = Op("delete", TRUE)

\* the trash button of a card of the collection view
DeleteFromCollection ==
    /\ mounted
    /\ state = VIEWING_COLLECTION
    /\ \E i \in 1..Len(collection) : handleDeleteFromCollection(collection[i].id)
    /\ UNCHANGED << mounted, workflow, currency, async, uuids, uploads >>
    /\ reportViewFollows

\* handleSelectFromCollection that opens the detail view without replacing
\* the current report
handleSelectFromCollection_KeepsReport(selectedReport) ==
    /\ report' = report
    /\ state' = VIEWING_COLLECTION_DETAIL
    /\ lastOp' = Op("select", FALSE)

\* handleSelectFromCollection(selectedReport), a click on a card
handleSelectFromCollection(selectedReport) ==
    /\ report' = selectedReport
    /\ state' = VIEWING_COLLECTION_DETAIL
    /\ lastOp' = Op("select", FALSE)

SelectFromCollection ==
    /\ mounted
    /\ state = VIEWING_COLLECTION
    /\ \E i \in 1..Len(collection) : handleSelectFromCollection(collection[i])
    /\ UNCHANGED << mounted, images, purchasePrice, identity, marketData, error,
                    currency, collection, storage, async, uuids, uploads >>
    /\ reportViewFollows

\* resetApp without setPurchasePrice('')
resetFields_KeepsPrice ==
    /\ state' = IDLE
    /\ images' = << >>
    /\ purchasePrice' = purchasePrice
    /\ identity' = NULL
    /\ marketData' = NULL
    /\ report' = NULL
    /\ error' = NULL

\* the assignments of resetApp
resetFields ==
    /\ state' = IDLE
    /\ images' = << >>
    /\ purchasePrice' = << >>
    /\ identity' = NULL
    /\ marketData' = NULL
    /\ report' = NULL
    /\ error' = NULL

\* resetApp: the report view's onReset, the error region's retry button and
\* the collection view's onBack (shown when no card matches the filter)
resetApp ==
    /\ mounted
    /\ \/ state = REPORT_READY /\ report # NULL
       \/ state = ERROR
       \/ state = VIEWING_COLLECTION
    /\ resetFields
    /\ lastOp' = Op("reset", FALSE)
    /\ UNCHANGED << mounted, currency, collection, storage, async, uuids, uploads >>
    /\ reportViewFollows

\* the detail view's onReset: () => setState(AppState.VIEWING_COLLECTION)
BackToCollection ==
    /\ mounted
    /\ state = VIEWING_COLLECTION_DETAIL /\ report # NULL
    /\ state' = VIEWING_COLLECTION
    /\ lastOp' = Op("back", FALSE)
    /\ UNCHANGED << mounted, images, purchasePrice, identity, marketData, report, error,
                    currency, collection, storage, async, uuids, uploads >>
    /\ reportViewFollows

\* handleNavigate whose home branch does not look at the state it leaves
handleNavigate_AnyOrigin(view) ==
    IF view = "collection"
    THEN /\ state' = VIEWING_COLLECTION
         /\ UNCHANGED << images, purchasePrice, identity, marketData, report, error >>
    ELSE IF report # NULL
         THEN /\ state' = REPORT_READY
              /\ UNCHANGED << images, purchasePrice, identity, marketData, report, error >>
         ELSE IF identity # NULL
              THEN /\ state' = IDENTITY_CONFIRMED
                   /\ UNCHANGED << images, purchasePrice, identity, marketData, report, error >>
              ELSE resetFields

\* handleNavigate whose identity branch forgets the detail view
handleNavigate_IdentityFromDetail(view) ==
    IF view = "collection"
    THEN /\ state' = VIEWING_COLLECTION
         /\ UNCHANGED << images, purchasePrice, identity, marketData, report, error >>
    ELSE IF state = VIEWING_COLLECTION \/ state = VIEWING_COLLECTION_DETAIL
         THEN IF report # NULL /\ state # VIEWING_COLLECTION_DETAIL
              THEN /\ state' = REPORT_READY
                   /\ UNCHANGED << images, purchasePrice, identity, marketData, report, error >>
              ELSE IF identity # NULL
                   THEN /\ state' = IDENTITY_CONFIRMED
                        /\ UNCHANGED << images, purchasePrice, identity, marketData, report, error >>
                   ELSE resetFields
         ELSE UNCHANGED workflow

\* handleNavigate whose home branch returns to the report without testing
\* that one is held
handleNavigate_NoReportTest(view) ==
    IF view = "collection"
    THEN /\ state' = VIEWING_COLLECTION
         /\ UNCHANGED << images, purchasePrice, identity, marketData, report, error >>
    ELSE IF state = VIEWING_COLLECTION \/ state = VIEWING_COLLECTION_DETAIL
         THEN IF state # VIEWING_COLLECTION_DETAIL
              THEN /\ state' = REPORT_READY
                   /\ UNCHANGED << images, purchasePrice, identity, marketData, report, error >>
              ELSE resetFields
         ELSE UNCHANGED workflow

\* handleNavigate(view); the Navbar is mounted in every state
handleNavigate(view) ==
    IF view = "collection"
    THEN /\ state' = VIEWING_COLLECTION
         /\ UNCHANGED << images, purchasePrice, identity, marketData, report, error >>
    ELSE IF state = VIEWING_COLLECTION \/ state = VIEWING_COLLECTION_DETAIL
         THEN IF report # NULL /\ state # VIEWING_COLLECTION_DETAIL
              THEN /\ state' = REPORT_READY
                   /\ UNCHANGED << images, purchasePrice, identity, marketData, report, error >>
              ELSE IF identity # NULL /\ state # VIEWING_COLLECTION_DETAIL
                   THEN /\ state' = IDENTITY_CONFIRMED
                        /\ UNCHANGED << images, purchasePrice, identity, marketData, report, error >>
                   ELSE resetFields
         ELSE UNCHANGED workflow

Navigate ==
    /\ mounted
    /\ \E view \in { "home", "collection" } :
          /\ handleNavigate(view)
          /\ lastOp' = Op(IF view = "home" THEN "navigate_home" ELSE "navigate_collection", FALSE)
    /\ UNCHANGED << mounted, currency, collection, storage, async, uuids, uploads >>
    /\ reportViewFollows

\* handleImageUpload whose oversize branch alerts but does not return
handleImageUpload_NoReturn(files) ==
    IF Len(files) > 0
    THEN /\ Pending < MaxPending
         /\ uploads < MaxUploads
         /\ uploads' = uploads + 1
         /\ encodings' = Append(encodings, [ files |-> files, results |-> { } ])
         /\ lastOp' = Op(IF Len(files) > MaxPhotos THEN "upload_rejected" ELSE "upload", FALSE)
    ELSE /\ UNCHANGED << encodings, uploads >>
         /\ lastOp' = Op("upload_empty", FALSE)

\* handleImageUpload(e): an empty selection does nothing, more than three
\* files alert and return, any other batch starts its FileReader encodings
handleImageUpload(files) ==
    IF Len(files) > 0 /\ ~(Len(files) > MaxPhotos)
    THEN /\ Pending < MaxPending
         /\ uploads < MaxUploads
         /\ uploads' = uploads + 1
         /\ encodings' = Append(encodings, [ files |-> files, results |-> { } ])
         /\ lastOp' = Op("upload", FALSE)
    ELSE /\ UNCHANGED << encodings, uploads >>
         /\ lastOp' = Op(IF Len(files) > MaxPhotos THEN "upload_rejected" ELSE "upload_empty", FALSE)

\* the file input's onChange; the input is rendered in the IDLE region only
ImageUpload ==
    /\ mounted
    /\ state = IDLE
    /\ \E files \in FileBatches : handleImageUpload(files)
    /\ UNCHANGED << mounted, workflow, currency, collection, storage, idCalls, valCalls,
                    uuids >>
    /\ reportViewFollows

\* reader.onloadend of file k of batch i: the promise of that file resolves
\* with reader.result; the readers of a batch finish in any order
onloadend(i, k) ==
    /\ k \in 1..Len(encodings[i].files)
    /\ ~(\E r \in encodings[i].results : r[1] = k)
    /\ encodings' = [encodings EXCEPT ![i].results =
                        @ \cup { << k, readAsDataURL(encodings[i].files[k]) >> }]
    /\ lastOp' = Op("read", FALSE)
    /\ UNCHANGED << mounted, workflow, currency, collection, storage, idCalls, valCalls,
                    uuids, uploads >>
    /\ reportViewFollows

\* the value Promise.all resolves with: the results in the order of the promises
resolvedWith(results) ==
    LET at == { r[1] : r \in results }
        nth(n) == CHOOSE k \in at : Cardinality({ j \in at : j < k }) = n - 1
    IN  [n \in 1..Cardinality(at) |-> (CHOOSE r \in results : r[1] = nth(n))[2]]

\* the continuation of batch i running as soon as one reader has finished
EncodingsDone_FirstSettled(i) ==
    LET base64Images == resolvedWith(encodings[i].results)
        rawBase64s == stripAll(base64Images)
    IN  /\ encodings[i].results # { }
        /\ images' = base64Images
        /\ state' = ANALYZING_IMAGE
        /\ error' = NULL
        /\ idCalls' = Append(idCalls, [ base64Images |-> rawBase64s,
                                        currentFullImages |-> base64Images ])
        /\ encodings' = RemoveAt(encodings, i)
        /\ lastOp' = Op("encoded", FALSE)
        /\ UNCHANGED << mounted, purchasePrice, identity, marketData, report, currency,
                        collection, storage, valCalls, uuids, uploads >>
        /\ reportViewFollows

\* Promise.all(promises).then(base64Images => ...) of batch i, which runs
\* once every promise of the batch has resolved, up to the await of
\* analyzeImage: setImages, strip the prefixes, setState, setError, and the
\* call of identifyWatchFromImage
EncodingsDone(i) ==
    LET base64Images == resolvedWith(encodings[i].results)
        rawBase64s == stripAll(base64Images)
    IN  /\ { r[1] : r \in encodings[i].results } = 1..Len(encodings[i].files)
        /\ images' = base64Images
        /\ state' = ANALYZING_IMAGE
        /\ error' = NULL
        /\ idCalls' = Append(idCalls, [ base64Images |-> rawBase64s,
                                        currentFullImages |-> base64Images ])
        /\ encodings' = RemoveAt(encodings, i)
        /\ lastOp' = Op("encoded", FALSE)
        /\ UNCHANGED << mounted, purchasePrice, identity, marketData, report, currency,
                        collection, storage, valCalls, uuids, uploads >>
        /\ reportViewFollows

\* the guard of the reordering (App.tsx:127)
hasBestImage(currentFullImages, result) ==
    /\ Has(result, "bestImageIndex")
    /\ result.bestImageIndex >= 0
    /\ result.bestImageIndex < Len(currentFullImages)

\* a reordering that exchanges the cover and the best image
sortedImages_Swap(currentFullImages, bestImageIndex) ==
    [ j \in 1..Len(currentFullImages) |->
        IF j = 1 THEN currentFullImages[bestImageIndex + 1]
        ELSE IF j = bestImageIndex + 1 THEN currentFullImages[1]
        ELSE currentFullImages[j] ]

\* [bestImg, ...otherImages] (App.tsx:128-130)
sortedImages(currentFullImages, bestImageIndex) ==
    << currentFullImages[bestImageIndex + 1] >>
        \o FilterIndexNot(currentFullImages, bestImageIndex)

\* analyzeImage that drops a completion arriving outside ANALYZING_IMAGE
IdentifyResolves_WhileWaiting(i, response) ==
    LET call == idCalls[i]
        outcome == identifyWatchFromImage(response)
    IN  /\ idCalls' = RemoveAt(idCalls, i)
        /\ IF state # ANALYZING_IMAGE
           THEN /\ UNCHANGED << images, identity, state, error >>
                /\ lastOp' = Op("identify_dropped", FALSE)
           ELSE IF Has(outcome, "resolved")
           THEN LET result == outcome.resolved
                IN  /\ images' = IF hasBestImage(call.currentFullImages, result)
                                 THEN sortedImages(call.currentFullImages, result.bestImageIndex)
                                 ELSE images
                    /\ identity' = result
                    /\ state' = IDENTITY_CONFIRMED
                    /\ error' = error
                    /\ lastOp' = Op("identified", FALSE)
           ELSE /\ error' = [message |-> OrText(outcome.rejected, "message", "Failed to identify image")]
                /\ state' = ERROR
                /\ UNCHANGED << images, identity >>
                /\ lastOp' = Op("identify_failed", FALSE)
        /\ UNCHANGED << mounted, purchasePrice, marketData, report, currency, collection,
                        storage, encodings, valCalls, uuids, uploads >>
        /\ reportViewFollows

\* analyzeImage after its await, for pending call i and the gateway's answer
IdentifyResolves(i, response) ==
    LET call == idCalls[i]
        outcome == identifyWatchFromImage(response)
    IN  /\ idCalls' = RemoveAt(idCalls, i)
        /\ IF Has(outcome, "resolved")
           THEN LET result == outcome.resolved
                IN  /\ images' = IF hasBestImage(call.currentFullImages, result)
                                 THEN sortedImages(call.currentFullImages, result.bestImageIndex)
                                 ELSE images
                    /\ identity' = result
                    /\ state' = IDENTITY_CONFIRMED
                    /\ error' = error
                    /\ lastOp' = Op("identified", FALSE)
           ELSE /\ error' = [message |-> OrText(outcome.rejected, "message", "Failed to identify image")]
                /\ state' = ERROR
                /\ UNCHANGED << images, identity >>
                /\ lastOp' = Op("identify_failed", FALSE)
        /\ UNCHANGED << mounted, purchasePrice, marketData, report, currency, collection,
                        storage, encodings, valCalls, uuids, uploads >>
        /\ reportViewFollows

\* the options of the currency select (App.tsx:278-281)
CurrencyOptions == { "HKD", "USD", "CNY", "EUR" }

\* the options the user picks among
CurrencyChoices == { "HKD", "USD" }

\* what the user types into the price input: digits, or nothing
PriceInputs == { << >>, << 5, 0, 0, 0, 0 >> }

\* the price form is rendered when state === IDENTITY_CONFIRMED && identity
PriceFormShown == mounted /\ state = IDENTITY_CONFIRMED /\ identity # NULL

\* the select's onChange: setCurrency(e.target.value)
SetCurrency ==
    /\ PriceFormShown
    /\ \E c \in CurrencyChoices :
          /\ currency' = c
          /\ lastOp' = Op("setCurrency", FALSE)
    /\ UNCHANGED << mounted, workflow, collection, storage, async, uuids, uploads >>
    /\ reportViewFollows

\* the input's onChange: setPurchasePrice(e.target.value)
SetPurchasePrice ==
    /\ PriceFormShown
    /\ \E p \in PriceInputs :
          /\ purchasePrice' = p
          /\ lastOp' = Op("setPurchasePrice", FALSE)
    /\ UNCHANGED << mounted, state, images, identity, marketData, report, error, currency,
                    collection, storage, async, uuids, uploads >>
    /\ reportViewFollows

\* parseFloat of a text of decimal digits
RECURSIVE parseFloat(_)
parseFloat(digits) ==
    IF digits = << >> THEN 0
    ELSE 10 * parseFloat(SubSeq(digits, 1, Len(digits) - 1)) + digits[Len(digits)]

\* handleAppraisal up to its await; the button is disabled while the price
\* is empty.  The continuation reads identity, images and currency from the
\* closure of the render the click happened in.
handleAppraisal ==
    /\ PriceFormShown
    /\ purchasePrice # << >>
    /\ ~(identity = NULL \/ purchasePrice = << >>)
    /\ Pending < MaxPending
    /\ uuids + Len(valCalls) < MaxReports
    /\ state' = SEARCHING_MARKET
    /\ valCalls' = Append(valCalls, [ identity |-> identity,
                                      priceNum |-> parseFloat(purchasePrice),
                                      currency |-> currency,
                                      images |-> images ])
    /\ lastOp' = Op("appraise", FALSE)
    /\ UNCHANGED << mounted, images, purchasePrice, identity, marketData, report, error,
                    currency, collection, storage, encodings, idCalls, uuids, uploads >>
    /\ reportViewFollows

\* crypto.randomUUID(): the n-th id it hands out, never one handed out before
randomUUID(n) == "u" \o ToString(n)

\* handleAppraisal after its await, for pending call i and the gateway's answer
ValuationResolves(i, response) ==
    LET call == valCalls[i]
        outcome == getMarketValuation(call.identity, call.priceNum, call.currency, response)
    IN  /\ valCalls' = RemoveAt(valCalls, i)
        /\ IF Has(outcome, "resolved")
           THEN LET data == outcome.resolved
                IN  /\ uuids' = uuids + 1
                    /\ marketData' = data
                    /\ report' = [ id |-> randomUUID(uuids'),
                                   date |-> toLocaleDateString,
                                   imageUrls |-> call.images,
                                   purchasePrice |-> call.priceNum,
                                   identity |-> call.identity,
                                   marketData |-> data ]
                    /\ state' = REPORT_READY
                    /\ error' = error
                    /\ lastOp' = Op("valued", FALSE)
           ELSE /\ error' = [message |-> OrText(outcome.rejected, "message", "Failed to fetch market data")]
                /\ state' = ERROR
                /\ UNCHANGED << marketData, report, uuids >>
                /\ lastOp' = Op("valuation_failed", FALSE)
        /\ UNCHANGED << mounted, images, purchasePrice, identity, currency, collection,
                        storage, encodings, idCalls, uploads >>
        /\ reportViewFollows

(***************************************************************************)
(* components/ReportView.tsx                                               *)
(***************************************************************************)
\* the profit with its operands exchanged
profit_Reversed(shown) == shown.purchasePrice - shown.marketData.averagePrice

\* const profit = report.marketData.averagePrice - report.purchasePrice
profit(shown) == shown.marketData.averagePrice - shown.purchasePrice

\* what html2canvas does, and what writing the file (toDataURL, jsPDF,
\* link.click) does
CanvasOutcomes == { "canvas", "throws" }
WriteOutcomes == { "written", "throws" }

\* a click on the JPG or the PDF button, up to the first await of
\* generateCanvas: reportRef.current is set while the view is mounted, so
\* setIsGenerating(true) runs and the 100 ms timer is started
handleDownload(kind) ==
    /\ mounted
    /\ reportViewShown
    /\ ~isGenerating
    /\ isGenerating' = TRUE
    /\ exportJob' = [kind |-> kind, at |-> "timer"]
    /\ lastOp' = Op("export", FALSE)
    /\ UNCHANGED << mounted, workflow, currency, collection, storage, async, uuids, uploads >>

handleDownloadJPG == handleDownload("jpg")

handleDownloadPDF == handleDownload("pdf")

\* generateCanvas after its timer: html2canvas is called
generateCanvas ==
    /\ exportJob # NULL /\ exportJob.at = "timer"
    /\ exportJob' = [exportJob EXCEPT !.at = "canvas"]
    /\ lastOp' = Op("export_rendering", FALSE)
    /\ UNCHANGED << mounted, workflow, currency, collection, storage, async, uuids, uploads,
                    isGenerating >>

\* an export whose failed rendering leaves isGenerating as it is
exportResolves_StaysBusy(canvas, written) ==
    /\ exportJob # NULL /\ exportJob.at = "canvas"
    /\ exportJob' = NULL
    /\ IF canvas = "throws"
       THEN /\ isGenerating' = isGenerating
            /\ lastOp' = Op("export_failed", FALSE)
       ELSE /\ isGenerating' = FALSE
            /\ lastOp' = Op(IF written = "throws" THEN "export_failed" ELSE "exported", FALSE)
    /\ UNCHANGED << mounted, workflow, currency, collection, storage, async, uuids, uploads >>

\* the rest of an export once html2canvas has settled: its catch alerts,
\* calls setIsGenerating(false) and returns null, on which the handler
\* returns; otherwise the handler writes the file, and its finally calls
\* setIsGenerating(false) whether or not the writing threw
exportResolves(canvas, written) ==
    /\ exportJob # NULL /\ exportJob.at = "canvas"
    /\ exportJob' = NULL
    /\ IF canvas = "throws"
       THEN /\ isGenerating' = FALSE
            /\ lastOp' = Op("export_failed", FALSE)
       ELSE /\ isGenerating' = FALSE
            /\ lastOp' = Op(IF written = "throws" THEN "export_failed" ELSE "exported", FALSE)
    /\ UNCHANGED << mounted, workflow, currency, collection, storage, async, uuids, uploads >>

ExportResolves ==
    \E canvas \in CanvasOutcomes : \E written \in WriteOutcomes : exportResolves(canvas, written)

Next ==
    \/ LoadCollection
    \/ ImageUpload
    \/ \E i \in 1..Len(encodings) : \E k \in 1..Len(encodings[i].files) : onloadend(i, k)
    \/ \E i \in 1..Len(encodings) : EncodingsDone(i)
    \/ \E i \in 1..Len(idCalls) : \E response \in IdentifyResponses :
          IdentifyResolves(i, response)
    \/ SetCurrency
    \/ SetPurchasePrice
    \/ handleAppraisal
    \/ \E i \in 1..Len(valCalls) : \E response \in ValuationResponses :
          ValuationResolves(i, response)
    \/ SaveToCollection
    \/ DeleteFromCollection
    \/ SelectFromCollection
    \/ BackToCollection
    \/ resetApp
    \/ Navigate
    \/ handleDownloadJPG
    \/ handleDownloadPDF
    \/ generateCanvas
    \/ ExportResolves

Spec == Init /\ [][Next]_vars

(***************************************************************************)
(* The collection store on its own: sessions that start from a slot of up  *)
(* to three records and only browse, select, delete, go home and save.     *)
(***************************************************************************)
ThirdRecord ==
    [ id |-> "s3", date |-> << 20, 1, 2026 >>,
      imageUrls |-> << readAsDataURL("N"), readAsDataURL("O") >>,
      purchasePrice |-> 200, identity |-> IdentityObject,
      marketData |-> Spread(MarketObject("EUR"), [sources |-> << >>]) ]

StoredRecords == { LegacyRecord, CurrentRecord, ThirdRecord }

\* the sequences without repetition over a set of records
Arrangements(S) ==
    { q \in UNION { [1..n -> S] : n \in 0..Cardinality(S) } :
        \A i, j \in 1..Len(q) : q[i] = q[j] => i = j }

StoreSlots == { NULL } \cup { JSONstringify(q) : q \in Arrangements(StoredRecords) }

InitStore == \E slot \in StoreSlots : Boot(slot)

NextStore ==
    \/ LoadCollection
    \/ Navigate
    \/ SelectFromCollection
    \/ BackToCollection
    \/ DeleteFromCollection
    \/ SaveToCollection
    \/ resetApp

SpecStore == InitStore /\ [][NextStore]_vars

(***************************************************************************)
(* analyzeImage on its own: one batch of 1 to 3 images has been encoded    *)
(* and submitted, and the gateway answers with any index.                  *)
(***************************************************************************)
ReorderFiles == { "A", "B", "C" }
ReorderBatches == UNION { [1..n -> ReorderFiles] : n \in 1..MaxPhotos }

\* the indices a response may carry
BestImageIndices == (0 - 1)..(MaxPhotos + 2)

ReorderResponses ==
    { Threw, [text |-> JSONstringify(IdentityObject)] }
        \cup { [text |-> JSONstringify(IdentityWithIndex(k))] : k \in BestImageIndices }

\* the state EncodingsDone leaves for a batch uploaded in a fresh session
Submitted(files) ==
    /\ mounted = TRUE
    /\ state = ANALYZING_IMAGE
    /\ images = readAll(files)
    /\ purchasePrice = << >>
    /\ currency = "HKD"
    /\ identity = NULL
    /\ marketData = NULL
    /\ report = NULL
    /\ error = NULL
    /\ collection = << >>
    /\ storage = NULL
    /\ encodings = << >>
    /\ idCalls = << [ base64Images |-> stripAll(readAll(files)),
                      currentFullImages |-> readAll(files) ] >>
    /\ valCalls = << >>
    /\ uuids = 0
    /\ uploads = 1
    /\ lastOp = [op |-> "encoded", wrote |-> FALSE, from |-> IDLE]
    /\ isGenerating = FALSE
    /\ exportJob = NULL

InitReorder == \E files \in ReorderBatches : Submitted(files)

NextReorder ==
    \E i \in 1..Len(idCalls) : \E response \in ReorderResponses :
        IdentifyResolves(i, response)

SpecReorder == InitReorder /\ [][NextReorder]_vars

(***************************************************************************)
(* handleAppraisal and getMarketValuation on their own: one price has been *)
(* submitted, and the gateway answers with any number of grounding chunks. *)
(***************************************************************************)
ValuationIdentities == { IdentityObject, IdentityWithIndex(0) }
ValuationPrices == { << 0 >>, << 5, 0, 0, 0, 0 >> }

WideValuationResponses ==
    { Threw, [text |-> EmptyText], [text |-> MalformedText],
      [text |-> JSONstringify(MarketObject("HKD"))] }
        \cup { Grounded(JSONstringify(MarketObject(cur)), Chunks(n, plain)) :
                 cur \in { "HKD", "USD" }, n \in 0..MaxChunks, plain \in { {}, {2}, {1, 4} } }

\* the state handleAppraisal leaves in a fresh session whose batch A, B was
\* identified as id and whose price form was filled with price and cur
Appraising(id, price, cur) ==
    /\ mounted = TRUE
    /\ state = SEARCHING_MARKET
    /\ images = << readAsDataURL("A"), readAsDataURL("B") >>
    /\ purchasePrice = price
    /\ currency = cur
    /\ identity = id
    /\ marketData = NULL
    /\ report = NULL
    /\ error = NULL
    /\ collection = << >>
    /\ storage = NULL
    /\ encodings = << >>
    /\ idCalls = << >>
    /\ valCalls = << [ identity |-> id, priceNum |-> parseFloat(price), currency |-> cur,
                       images |-> << readAsDataURL("A"), readAsDataURL("B") >> ] >>
    /\ uuids = 0
    /\ uploads = 1
    /\ lastOp = [op |-> "appraise", wrote |-> FALSE, from |-> IDENTITY_CONFIRMED]
    /\ isGenerating = FALSE
    /\ exportJob = NULL

InitValuation ==
    \E id \in ValuationIdentities : \E price \in ValuationPrices :
        \E cur \in CurrencyOptions : Appraising(id, price, cur)

NextValuation ==
    \E i \in 1..Len(valCalls) : \E response \in WideValuationResponses :
        ValuationResolves(i, response)

SpecValuation == InitValuation /\ [][NextValuation]_vars

(***************************************************************************)
(* The load-time migration on its own: the slot holds one record of any    *)
(* shape an earlier version of the program has written, and the component  *)
(* mounts.                                                                 *)
(***************************************************************************)
NoFields == [f \in {} |-> f]

\* the image fields of a persisted record: none, the legacy single image,
\* the image list, or both
ImageShapes ==
    { NoFields,
      [imageUrl |-> readAsDataURL("L")],
      [imageUrls |-> << readAsDataURL("M"), readAsDataURL("N") >>],
      [imageUrl |-> readAsDataURL("L"), imageUrls |-> << readAsDataURL("M") >>] }

\* the later fields of a persisted record's market data, each absent,
\* empty or filled
ProsShapes == { NoFields, [pros |-> << >>], [pros |-> << "a" >>] }
ConsShapes == { NoFields, [cons |-> << "b" >>] }
CurrencyShapes == { NoFields, [currency |-> ""], [currency |-> "USD"] }
PriceSourceShapes == { NoFields, [priceSource |-> ""], [priceSource |-> "eBay"] }

MigrationRecords ==
    { Spread(Spread([ id |-> "s1", date |-> << 3, 5, 2023 >>, purchasePrice |-> 30000,
                      identity |-> IdentityObject ], img),
             [ marketData |->
                 Spread(Spread(Spread(Spread(LegacyRecord.marketData, pros), cons), cur), src) ]) :
        img \in ImageShapes, pros \in ProsShapes, cons \in ConsShapes,
        cur \in CurrencyShapes, src \in PriceSourceShapes }

MigrationSlots == { JSONstringify(<< r >>) : r \in MigrationRecords }

InitMigration == \E slot \in MigrationSlots : Boot(slot)

NextMigration == LoadCollection

SpecMigration == InitMigration /\ [][NextMigration]_vars

(***************************************************************************)
(* The application started on an empty slot, with every reader and every   *)
(* gateway call that is outstanding resolving in the end: the browser      *)
(* fires onloadend for each reader, runs the continuation of a settled     *)
(* Promise.all, and each await of a gateway call is resumed.  The user's   *)
(* own steps carry no such condition.                                      *)
(***************************************************************************)
InitSettling == Boot(NULL)

SpecSettling ==
    /\ InitSettling
    /\ [][Next]_vars
    /\ WF_vars(\E i \in 1..Len(encodings) :
                  \E k \in 1..Len(encodings[i].files) : onloadend(i, k))
    /\ WF_vars(\E i \in 1..Len(encodings) : EncodingsDone(i))
    /\ WF_vars(\E i \in 1..Len(idCalls) :
                  \E response \in IdentifyResponses : IdentifyResolves(i, response))
    /\ WF_vars(\E i \in 1..Len(valCalls) :
                  \E response \in ValuationResponses : ValuationResolves(i, response))

(***************************************************************************)
(* The application started on a slot that the load cannot read: text that  *)
(* is no JSON, or a list with a record that has no marketData.             *)
(***************************************************************************)
\* a record written without its market data
TruncatedRecord ==
    [ id |-> "s4", date |-> << 1, 2, 2024 >>, imageUrls |-> << readAsDataURL("T") >>,
      purchasePrice |-> 500, identity |-> IdentityObject ]

UnreadableSlots == { MalformedText, JSONstringify(<< CurrentRecord, TruncatedRecord >>) }

InitUnreadable == \E slot \in UnreadableSlots : Boot(slot)

SpecUnreadable == InitUnreadable /\ [][Next]_vars

(***************************************************************************)
(* components/CollectionView: what the collection view derives from the    *)
(* collection it is given.  Amounts in the reporting currency are kept in  *)
(* hundredths, so that the rates 7.8, 1.08 and 8.5 are whole numbers.      *)
(***************************************************************************)
\* EXCHANGE_RATES, in hundredths
EXCHANGE_RATES == [ HKD |-> 100, USD |-> 780, CNY |-> 108, EUR |-> 850 ]

\* an argument of a parameter with a default value: obj.f, or the default
\* when obj.f is undefined
ArgOr(obj, f, default) == IF Has(obj, f) THEN obj[f] ELSE default

\* toHKD without its conversion
toHKD_Unconverted(val, code) == val * 100

\* toHKD(val, currency): EXCHANGE_RATES[currency] || 1, times val
toHKD(val, code) ==
    LET rate == IF code \in DOMAIN EXCHANGE_RATES THEN EXCHANGE_RATES[code] ELSE 100
    IN  val * rate

\* collection.reduce((acc, item) => acc + toHKD(item.purchasePrice, ...), 0)
RECURSIVE totalCost(_)
totalCost(coll) ==
    IF coll = << >> THEN 0
    ELSE LET item == coll[Len(coll)]
         IN  totalCost(SubSeq(coll, 1, Len(coll) - 1))
                 + toHKD(item.purchasePrice, ArgOr(item.marketData, "currency", "HKD"))

\* collection.reduce((acc, item) => acc + toHKD(item.marketData.averagePrice, ...), 0)
RECURSIVE totalValue(_)
totalValue(coll) ==
    IF coll = << >> THEN 0
    ELSE LET item == coll[Len(coll)]
         IN  totalValue(SubSeq(coll, 1, Len(coll) - 1))
                 + toHKD(item.marketData.averagePrice, ArgOr(item.marketData, "currency", "HKD"))

\* stats
stats(coll) ==
    [ totalCost |-> totalCost(coll), totalValue |-> totalValue(coll),
      totalProfit |-> totalValue(coll) - totalCost(coll) ]

\* NaN, the time value of an invalid date
NaN == [nan |-> TRUE]

\* new Date(text).getTime() for a text of three numbers separated by
\* slashes: the first is read as the month, the second as the day, the third
\* as the year; a month above 12 or a day above 31 gives an invalid date.
\* The time value is counted in days of 31-day months.
getTime(date) ==
    LET month == date[1]
        day == date[2]
        year == date[3]
    IN  IF month \in 1..12 /\ day \in 1..31
        THEN [time |-> (year * 12 + (month - 1)) * 31 + day]
        ELSE NaN

\* the comparator of result.sort, with NaN read as +0 as the sort does
compare(sortBy, a, b) ==
    IF sortBy = "price"
    THEN toHKD(b.purchasePrice, ArgOr(b.marketData, "currency", "HKD"))
             - toHKD(a.purchasePrice, ArgOr(a.marketData, "currency", "HKD"))
    ELSE IF sortBy = "value"
    THEN toHKD(b.marketData.averagePrice, ArgOr(b.marketData, "currency", "HKD"))
             - toHKD(a.marketData.averagePrice, ArgOr(a.marketData, "currency", "HKD"))
    ELSE IF getTime(b.date) = NaN \/ getTime(a.date) = NaN
         THEN 0
         ELSE getTime(b.date).time - getTime(a.date).time

\* the comparator is a consistent comparator for the elements of s
\* (ECMA-262, Array.prototype.sort): equality and order are transitive and
\* equals compare alike
consistentComparator(s, sortBy) ==
    \A i, j, k \in 1..Len(s) :
        LET ij == compare(sortBy, s[i], s[j])
            jk == compare(sortBy, s[j], s[k])
            ik == compare(sortBy, s[i], s[k])
        IN  /\ (ij = 0 /\ jk = 0) => ik = 0
            /\ (ij < 0 /\ jk < 0) => ik < 0
            /\ (ij > 0 /\ jk > 0) => ik > 0
            /\ (ij = 0 /\ jk < 0) => ik < 0
            /\ (ij < 0 /\ jk = 0) => ik < 0

\* the orders of the positions 1..n
orderings(n) == { p \in [1..n -> 1..n] : \A i, j \in 1..n : p[i] = p[j] => i = j }

\* the arrays result.sort may leave: the stable sorted one when the
\* comparator is consistent, and any order (the order is
\* implementation-defined) when it is not
sorted(s, sortBy) ==
    LET n == Len(s)
        stable == { p \in orderings(n) :
                      \A i, j \in 1..n :
                          i < j => LET c == compare(sortBy, s[p[i]], s[p[j]])
                                   IN  c < 0 \/ (c = 0 /\ p[i] < p[j]) }
        allowed == IF consistentComparator(s, sortBy) THEN stable ELSE orderings(n)
    IN  { [i \in 1..n |-> s[p[i]]] : p \in allowed }

\* filteredCollection for the filter '' the view starts with, which every
\* brand includes: the arrays the memo may hold
filteredCollection(coll, sortBy) == sorted(coll, sortBy)

(***************************************************************************)
(* The collection view on its own: sessions that start from a slot of up   *)
(* to three records in several currencies and of several dates.            *)
(***************************************************************************)
\* created on 2 January 2026
DollarRecord ==
    [ id |-> "v1", date |-> << 2, 1, 2026 >>, imageUrls |-> << readAsDataURL("M") >>,
      purchasePrice |-> 1000, identity |-> IdentityObject,
      marketData |-> Spread(MarketObject("USD"), [averagePrice |-> 1200, sources |-> << >>]) ]
\* created on 1 February 2026
BaselineRecord ==
    [ id |-> "v2", date |-> << 1, 2, 2026 >>, imageUrls |-> << readAsDataURL("N") >>,
      purchasePrice |-> 100, identity |-> IdentityObject,
      marketData |-> Spread(MarketObject("HKD"), [averagePrice |-> 150, sources |-> << >>]) ]
\* created on 20 January 2026, in a currency the table does not know
UnknownCodeRecord ==
    [ id |-> "v3", date |-> << 20, 1, 2026 >>, imageUrls |-> << readAsDataURL("O") >>,
      purchasePrice |-> 50, identity |-> IdentityObject,
      marketData |-> Spread(MarketObject("JPY"), [averagePrice |-> 40, sources |-> << >>]) ]
\* created on 5 May 2024
YuanRecord ==
    [ id |-> "v4", date |-> << 5, 5, 2024 >>, imageUrls |-> << readAsDataURL("P") >>,
      purchasePrice |-> 200, identity |-> IdentityObject,
      marketData |-> Spread(MarketObject("CNY"), [averagePrice |-> 300, sources |-> << >>]) ]

ViewRecords ==
    { DollarRecord, BaselineRecord, UnknownCodeRecord, YuanRecord, ThirdRecord, LegacyRecord }

\* slots of up to MaxShown records, in any order
ViewSlots ==
    { JSONstringify(q) : q \in { a \in Arrangements(ViewRecords) : Len(a) <= MaxShown } }

InitView == \E slot \in ViewSlots : Boot(slot)

SpecView == InitView /\ [][NextStore]_vars

(***************************************************************************)
(* Properties                                                              *)
(***************************************************************************)
\* the handlers a user event runs; the others are continuations of
\* asynchronous operations and the mount effect
UserOps ==
    { "upload", "upload_rejected", "upload_empty", "setCurrency", "setPurchasePrice",
      "appraise", "save", "delete", "select", "back", "reset",
      "navigate_home", "navigate_collection", "export" }

GatewayCallsOutstanding == Len(idCalls) + Len(valCalls)

\* C1: in every reachable state at most one Identification or Valuation
\* gateway call is outstanding.
C1_SingleCallInFlight == GatewayCallsOutstanding <= 1

\* C2: no two records of the in-memory collection have the same id.
C2_UniqueById ==
    \A i, j \in 1..Len(collection) : collection[i].id = collection[j].id => i = j

\* a save added a report to a collection that already held a loaded record
C2_Witness ==
    /\ lastOp.op = "save" /\ lastOp.wrote
    /\ Len(collection) = 2
    /\ collection[2].id = LegacyRecord.id

\* C3: a save of a report whose id is present leaves the collection, the
\* persisted slot, the state (ReportReady) and the error unchanged, and
\* writes nothing.
C3_SavePresentIsNoOp ==
    [][ (lastOp'.op = "save" /\ report # NULL /\ SomeId(collection, report.id))
            => /\ collection' = collection
               /\ storage' = storage
               /\ ~lastOp'.wrote
               /\ state = REPORT_READY /\ state' = REPORT_READY
               /\ error' = error ]_vars

\* a save of the current report was run while the collection held it
C3_Witness ==
    /\ lastOp.op = "save" /\ ~lastOp.wrote
    /\ state = REPORT_READY
    /\ SomeId(collection, report.id)

\* the ids of the records a slot may hold and of the reports of a session
KnownIds == { r.id : r \in StoredRecords } \cup { randomUUID(n) : n \in 1..MaxReports }

\* C4: removing an id that is absent gives the collection back unchanged;
\* a delete of the record at position i (its id is present) shortens the
\* collection by exactly 1, leaves no record with that id and keeps the
\* others, unchanged, in their order.
C4_RemoveById ==
    [][ /\ \A id \in KnownIds :
              ~SomeId(collection, id) => filterOutId(collection, id) = collection
        /\ \A i \in 1..Len(collection) :
              handleDeleteFromCollection(collection[i].id)
                  => /\ Len(collection') = Len(collection) - 1
                     /\ ~SomeId(collection', collection[i].id)
                     /\ collection' = RemoveAt(collection, i) ]_vars

\* a delete took the middle record out of a collection of three
C4_Witness ==
    /\ lastOp.op = "delete"
    /\ Len(collection) = 2
    /\ collection[1].id = LegacyRecord.id /\ collection[2].id = ThirdRecord.id
    /\ storage = JSONstringify(collection)

C6_IdentityDiscarded ==
    state = IDENTITY_CONFIRMED => (error = NULL \/ error.message # ValuationErrorMessage)

IsPermutation(s, t) ==
    /\ Len(s) = Len(t)
    /\ \A x \in { t[i] : i \in 1..Len(t) } \cup { s[i] : i \in 1..Len(s) } :
          Cardinality({ i \in 1..Len(s) : s[i] = x })
              = Cardinality({ i \in 1..Len(t) : t[i] = x })

\* C8: for a submitted list L of 1 to 3 images and a returned index k, the
\* image list after identification is L[k] followed by L without position k
\* when 0 <= k < length(L), and is L when k is absent, negative or too
\* large; either way it is a rearrangement of L of the same length.
C8_BestCoverReordering ==
    [][ \A response \in ReorderResponses :
          (IdentifyResolves(1, response) /\ lastOp'.op = "identified")
            => LET L == idCalls[1].currentFullImages
                   result == JSONparse(response.text)
               IN  /\ L = images
                   /\ Len(L) \in 1..MaxPhotos
                   /\ IF Has(result, "bestImageIndex")
                         /\ 0 <= result.bestImageIndex /\ result.bestImageIndex < Len(L)
                      THEN LET k == result.bestImageIndex
                           IN  images' = [ j \in 1..Len(L) |->
                                             IF j = 1 THEN L[k + 1]
                                             ELSE IF j <= k + 1 THEN L[j - 1] ELSE L[j] ]
                      ELSE images' = L
                   /\ IsPermutation(images', L) ]_vars

\* images A, B, C with best index 1 became B, A, C
C8_Witness ==
    /\ lastOp.op = "identified"
    /\ identity = IdentityWithIndex(1)
    /\ images = << readAsDataURL("B"), readAsDataURL("A"), readAsDataURL("C") >>

\* C9: the report a valuation call produces carries the currency that call
\* was made with, whatever the response claims and whatever the currency
\* selection is when the call resolves.
C9_CurrencyForceSet ==
    [][ \A i \in 1..Len(valCalls) : \A response \in ValuationResponses :
          (ValuationResolves(i, response) /\ lastOp'.op = "valued")
            => /\ report'.marketData.currency = valCalls[i].currency
               /\ marketData'.currency = valCalls[i].currency ]_vars

\* a call made with USD, answered with HKD, resolved after the selection
\* had been changed back to HKD, and produced a USD report
C9_Witness ==
    /\ lastOp.op = "valued"
    /\ report # NULL /\ report.marketData.currency = "USD"
    /\ currency = "HKD"

\* the grounding citations of a response, in their order
Citations(response) ==
    LET chunks == response.candidates[1].groundingMetadata.groundingChunks
        at == { i \in 1..Len(chunks) : "web" \in DOMAIN chunks[i] }
        nth(j) == CHOOSE i \in at : Cardinality({ h \in at : h < i }) = j - 1
    IN  [ j \in 1..Cardinality(at) |->
            [title |-> chunks[nth(j)].web.title, uri |-> chunks[nth(j)].web.uri] ]

Min(a, b) == IF a < b THEN a ELSE b

\* C10: a response with n citations yields a report with exactly min(n, 5)
\* sources, the first min(n, 5) citations in their order.
C10_SourceCap ==
    [][ \A response \in WideValuationResponses :
          (ValuationResolves(1, response) /\ lastOp'.op = "valued"
           /\ Has(response, "candidates"))
            => LET cites == Citations(response)
                   kept == report'.marketData.sources
               IN  /\ Len(kept) = Min(Len(cites), 5)
                   /\ \A j \in 1..Len(kept) : kept[j] = cites[j] ]_vars

\* a response with 8 chunks, all of them citations, left the first 5
C10_Witness ==
    /\ lastOp.op = "valued"
    /\ report.marketData.sources = [ j \in 1..5 |-> [title |-> j, uri |-> j] ]

\* C11: a batch of more than 3 files is rejected: the state is and stays
\* Idle, no encoding and no gateway call is started, and the images, the
\* identity and the error are unchanged.
C11_OversizedBatchRejected ==
    [][ lastOp'.op = "upload_rejected"
            => /\ state = IDLE /\ state' = IDLE
               /\ encodings' = encodings /\ idCalls' = idCalls /\ valCalls' = valCalls
               /\ images' = images /\ identity' = identity /\ error' = error
               /\ uploads' = uploads ]_vars

\* a batch of four files was rejected in a session that had none accepted
C11_Witness ==
    /\ lastOp.op = "upload_rejected"
    /\ state = IDLE /\ uploads = 0 /\ Pending = 0 /\ images = << >>

\* C12: reset leads to Idle with images, purchase price, identity, market
\* data, report and error cleared, and leaves the collection, the persisted
\* slot and the selected currency unchanged.
C12_ResetClearsTransients ==
    [][ lastOp'.op = "reset"
            => /\ state' = IDLE
               /\ images' = << >> /\ purchasePrice' = << >>
               /\ identity' = NULL /\ marketData' = NULL
               /\ report' = NULL /\ error' = NULL
               /\ collection' = collection /\ storage' = storage
               /\ currency' = currency ]_vars

\* the report view was reset after a USD report had been saved
C12_Witness ==
    /\ lastOp.op = "reset" /\ lastOp.from = REPORT_READY
    /\ state = IDLE /\ purchasePrice = << >> /\ report = NULL
    /\ currency = "USD"
    /\ Len(collection) > 0 /\ collection[1].id = randomUUID(1)

\* C14: the load leaves the slot as it found it, and the slot changes only
\* in a save that adds a record or in a delete; so after a load of legacy
\* records the slot holds the un-migrated data until then.
C14_LoadNeverWrites ==
    [][ /\ lastOp'.op = "load" => storage' = storage
        /\ storage' # storage => (lastOp'.op \in { "save", "delete" } /\ lastOp'.wrote) ]_vars

\* legacy records were loaded and migrated, and the slot still holds them
\* as they were
C14_Witness ==
    /\ mounted
    /\ storage = JSONstringify(<< LegacyRecord >>)
    /\ collection = << migrateItem(LegacyRecord) >>
    /\ collection # JSONparse(storage)
    /\ lastOp.op # "load"

\* C19: a save that adds a record and a delete leave the slot equal to the
\* serialization of the collection, and once they are equal every step
\* keeps them equal.
C19_WriteThrough ==
    [][ /\ (lastOp'.op \in { "save", "delete" } /\ lastOp'.wrote)
              => storage' = JSONstringify(collection')
        /\ storage = JSONstringify(collection)
              => storage' = JSONstringify(collection') ]_vars

\* after a save and a later delete the slot is the serialized collection
C19_Witness ==
    /\ lastOp.op = "delete" /\ lastOp.wrote
    /\ uuids = 1
    /\ storage = JSONstringify(collection)
    /\ \A i \in 1..Len(collection) : collection[i].id # LegacyRecord.id

\* C13: the records a load exposes are the migration of the persisted ones,
\* and migrating them once more gives the same records.
C13_MigrationIdempotent ==
    [][ (lastOp'.op = "load" /\ JSONparses(storage))
            => /\ collection' = migrate(JSONparse(storage))
               /\ migrate(migrate(JSONparse(storage))) = migrate(JSONparse(storage)) ]_vars

\* a record with only the legacy image and no currency was loaded: it got
\* its image list and the default currency, so the migration changed it
C13_Witness ==
    /\ lastOp.op = "load"
    /\ Len(collection) = 1
    /\ ~Has(JSONparse(storage)[1], "imageUrls")
    /\ collection[1].imageUrls = << readAsDataURL("L") >>
    /\ ~Has(JSONparse(storage)[1].marketData, "currency")
    /\ collection[1].marketData.currency = "HKD"

\* the response carries JSON text that lacks one of the fields
LacksField(response, fields) ==
    /\ Has(response, "text") /\ JSONparses(response.text)
    /\ ~(fields \subseteq DOMAIN JSONparse(response.text))

\* C15: an identification response that lacks a required field leads to
\* Error and stores no identity, and a valuation response that lacks a
\* required field leads to Error and stores no report.
C15_MissingFieldIsFailure ==
    [][ /\ \A i \in 1..Len(idCalls) : \A response \in IdentifyResponses :
              (IdentifyResolves(i, response) /\ LacksField(response, RequiredIdentityFields))
                  => state' = ERROR /\ identity' = identity
        /\ \A i \in 1..Len(valCalls) : \A response \in ValuationResponses :
              (ValuationResolves(i, response) /\ LacksField(response, RequiredMarketFields))
                  => state' = ERROR /\ report' = report ]_vars

\* the multiplier of a currency code, in hundredths
RateOf(code) ==
    CASE code = "HKD" -> 100
      [] code = "USD" -> 780
      [] code = "CNY" -> 108
      [] code = "EUR" -> 850
      [] OTHER -> 100

\* the sum of F over the records at the positions I of coll, where F is the
\* purchase price or the average price times the rate of the record
RECURSIVE SumAt(_, _, _)
SumAt(coll, I, field) ==
    IF I = {} THEN 0
    ELSE LET i == CHOOSE x \in I : TRUE
             amount == IF field = "cost" THEN coll[i].purchasePrice
                       ELSE coll[i].marketData.averagePrice
             code == IF Has(coll[i].marketData, "currency")
                     THEN coll[i].marketData.currency ELSE "none"
         IN  amount * RateOf(code) + SumAt(coll, I \ {i}, field)

\* C16: in the collection view the total cost is the sum of purchasePrice
\* times rate, the total value the sum of averagePrice times rate, and the
\* total profit their difference, with rates HKD 1, USD 7.8, CNY 1.08,
\* EUR 8.5 and 1 for any other or missing code (amounts in hundredths).
C16_AggregateNormalization ==
    state = VIEWING_COLLECTION
        => /\ stats(collection).totalCost = SumAt(collection, DOMAIN collection, "cost")
           /\ stats(collection).totalValue = SumAt(collection, DOMAIN collection, "value")
           /\ stats(collection).totalProfit
                  = SumAt(collection, DOMAIN collection, "value")
                        - SumAt(collection, DOMAIN collection, "cost")
           /\ \A val \in { 0, 1, 1000 } :
                  /\ toHKD(val, ArgOr(LegacyRecord.marketData, "currency", "HKD")) = val * 100
                  /\ toHKD(val, "JPY") = val * 100

\* the view shows a record priced 1000 at rate 7.8 and one priced 100 in
\* the baseline currency: the total cost is 7900
C16_Witness ==
    /\ state = VIEWING_COLLECTION
    /\ collection = << DollarRecord, BaselineRecord >>
    /\ stats(collection).totalCost = 790000

\* a was created after b; the date text is day/month/year
CreatedAfter(a, b) ==
    \/ a.date[3] > b.date[3]
    \/ a.date[3] = b.date[3] /\ a.date[2] > b.date[2]
    \/ a.date[3] = b.date[3] /\ a.date[2] = b.date[2] /\ a.date[1] > b.date[1]

\* C17: when the records of the collection have distinct creation dates,
\* the view's order by date lists them most recent first.
C17_DateSort ==
    (state = VIEWING_COLLECTION
     /\ \A i, j \in 1..Len(collection) : i # j => collection[i].date # collection[j].date)
        => \A shown \in filteredCollection(collection, "date") :
              \A i, j \in 1..Len(shown) : i < j => CreatedAfter(shown[i], shown[j])

\* C18: in a session whose only accepted batch is the two images A, B and
\* whose identification answered with best index 1, IdentityConfirmed shows
\* B before A; and the report of that session, made from the price 50000
\* and a valuation with average price 60000, has the images B, A, the
\* purchase price 50000 and the profit 10000.
C18_EndToEnd ==
    /\ (uploads = 1 /\ state = IDENTITY_CONFIRMED /\ identity = IdentityWithIndex(1))
          => images = << readAsDataURL("B"), readAsDataURL("A") >>
    /\ (uploads = 1 /\ state = REPORT_READY /\ report # NULL
        /\ report.id = randomUUID(1) /\ report.identity = IdentityWithIndex(1))
          => /\ report.imageUrls = << readAsDataURL("B"), readAsDataURL("A") >>
             /\ report.purchasePrice = 50000
             /\ report.marketData.averagePrice = 60000
             /\ profit(report) = 10000

\* the scenario ran to its end in HKD, from an empty slot
C18_Witness ==
    /\ lastOp.op = "valued" /\ lastOp.from = SEARCHING_MARKET
    /\ uploads = 1 /\ state = REPORT_READY
    /\ storage = NULL /\ currency = "HKD"
    /\ identity = IdentityWithIndex(1)
    /\ report.marketData.currency = "HKD"
    /\ report.imageUrls = << readAsDataURL("B"), readAsDataURL("A") >>
    /\ profit(report) = 10000

\* the steps of an export
ExportOps == { "export", "export_rendering", "exported", "export_failed" }

\* C20: no step of an export changes the state, the report or the
\* collection; while an export runs the export controls are disabled, and
\* when it has completed or failed they are enabled again.
C20_ExportIsolation ==
    [][ /\ lastOp'.op \in ExportOps
              => /\ state' = state /\ report' = report
                 /\ collection' = collection /\ storage' = storage
        /\ exportJob' # NULL => isGenerating'
        /\ lastOp'.op \in { "exported", "export_failed" }
              => (exportJob' = NULL /\ ~isGenerating') ]_vars

\* an export of the report of this session failed: the report is still
\* shown and the controls are enabled
C20_Witness ==
    /\ lastOp.op = "export_failed" /\ lastOp.from = REPORT_READY
    /\ state = REPORT_READY /\ report # NULL /\ report.id = randomUUID(1)
    /\ ~isGenerating /\ exportJob = NULL


(***************************************************************************)
(* C21: every report in the collection or in the current-report slot has   *)
(* an image list of one to three entries, the cover being the first; this  *)
(* covers the reports the workflow assembles and every record the load     *)
(* exposes after migration                                                 *)
(***************************************************************************)
C21_ImageListShape ==
    /\ report # NULL => Len(report.imageUrls) \in 1..MaxPhotos
    /\ \A k \in 1..Len(collection) : Len(collection[k].imageUrls) \in 1..MaxPhotos


(***************************************************************************)
(* C22: the identification gateway is called only when every file of an    *)
(* accepted batch of one to three files has been encoded, and it receives  *)
(* exactly one image per selected file, in selection order; no call is     *)
(* made with a subset of the batch                                         *)
(***************************************************************************)
C22_AllOrNothingBatch ==
    [][ idCalls' # idCalls /\ Len(idCalls') >= Len(idCalls)
            => \E i \in 1..Len(encodings) :
                  LET files == encodings[i].files
                      call == idCalls'[Len(idCalls')]
                  IN  /\ Len(files) \in 1..MaxPhotos
                      /\ \A k \in 1..Len(files) :
                            << k, readAsDataURL(files[k]) >> \in encodings[i].results
                      /\ encodings' = RemoveAt(encodings, i)
                      /\ idCalls' = Append(idCalls, call)
                      /\ Len(call.base64Images) = Len(files)
                      /\ \A k \in 1..Len(files) :
                            /\ call.base64Images[k] = StripPrefix(readAsDataURL(files[k]))
                            /\ call.currentFullImages[k] = readAsDataURL(files[k]) ]_vars

\* a batch of two files has been submitted, in selection order, while of a
\* second accepted batch only the second file has been encoded so far
C22_Witness ==
    /\ lastOp.op = "encoded"
    /\ Len(idCalls) = 1
    /\ idCalls[1].base64Images = << "A", "B" >>
    /\ Len(encodings) = 1
    /\ encodings[1].results = { << 2, readAsDataURL("B") >> }


(***************************************************************************)
(* C23: in every reachable state the application state carries its data:   *)
(* a report is held in ReportReady and in ViewingCollectionDetail, an      *)
(* identity in IdentityConfirmed and an error message in Error             *)
(***************************************************************************)
C23_StateCarriesData ==
    /\ state = REPORT_READY => report # NULL
    /\ state = VIEWING_COLLECTION_DETAIL => report # NULL
    /\ state = IDENTITY_CONFIRMED => identity # NULL
    /\ state = ERROR => error # NULL

\* home navigation from the collection list has returned to the price form
\* of an identity that is still held, no report being held
C23_Witness ==
    /\ lastOp.op = "navigate_home" /\ lastOp.from = VIEWING_COLLECTION
    /\ state = IDENTITY_CONFIRMED /\ identity # NULL /\ report = NULL


(***************************************************************************)
(* C24: a save of a report whose id is absent puts the report at the first *)
(* position of the collection and keeps every record held before,          *)
(* unchanged and in its order, behind it; the collection grows by 1        *)
(***************************************************************************)
C24_PrependOnSave ==
    [][ (lastOp'.op = "save" /\ report # NULL /\ ~SomeId(collection, report.id))
            => /\ Len(collection') = Len(collection) + 1
               /\ collection'[1] = report
               /\ \A k \in 1..Len(collection) : collection'[k + 1] = collection[k] ]_vars

\* a report of this session was saved into a collection that held a record
C24_Witness ==
    /\ lastOp.op = "save" /\ lastOp.wrote
    /\ Len(collection) = 2
    /\ collection[1] = report
    /\ collection[1].id = randomUUID(1)
    /\ collection[2] = migrateItem(LegacyRecord)


(***************************************************************************)
(* C25: a gateway completion changes the application state only while the  *)
(* workflow is still waiting for that call: an identification completion   *)
(* only from AnalyzingImage, a valuation completion only from              *)
(* SearchingMarket; a completion that arrives in any other state leaves    *)
(* the application state unchanged                                         *)
(***************************************************************************)
C25_CompletionOnlyWhileWaiting ==
    [][ /\ lastOp'.op \in { "identified", "identify_failed" } /\ state # ANALYZING_IMAGE
            => state' = state
        /\ lastOp'.op \in { "valued", "valuation_failed" } /\ state # SEARCHING_MARKET
            => state' = state ]_vars


(***************************************************************************)
(* C26: identity and images stay paired: when an identification stores an  *)
(* identity, the image list held is a rearrangement of exactly the batch   *)
(* that was submitted to that call, and for as long as that identity is    *)
(* held the image list stays the same; this also when calls overlap and a  *)
(* response carries no usable best-cover index                             *)
(***************************************************************************)
C26_IdentityImagesPaired ==
    [][ /\ lastOp'.op = "identified"
            => \E i \in 1..Len(idCalls) :
                  /\ idCalls' = RemoveAt(idCalls, i)
                  /\ IsPermutation(images', idCalls[i].currentFullImages)
        /\ (identity # NULL /\ identity' = identity) => images' = images ]_vars


(***************************************************************************)
(* C27: whenever the application state is ViewingCollectionDetail, a       *)
(* current report is held and the collection in memory holds a record      *)
(* with its id, whatever selects, deletes, saves, navigation, resets and   *)
(* gateway completions came before                                         *)
(***************************************************************************)
C27_DetailShowsMember ==
    state = VIEWING_COLLECTION_DETAIL
        => /\ report # NULL
           /\ SomeId(collection, report.id)

\* the detail view shows the persisted record after a report of this
\* session had been saved in front of it and a gateway call is outstanding
C27_Witness ==
    /\ state = VIEWING_COLLECTION_DETAIL
    /\ lastOp.op = "select"
    /\ Len(collection) = 2
    /\ report = collection[2]
    /\ collection[1].id = randomUUID(1)
    /\ GatewayCallsOutstanding > 0


(***************************************************************************)
(* C28: whenever the application state is ReportReady, the current report  *)
(* is one that a successful valuation of this session assembled, never a   *)
(* record that was only opened from the collection; so select, back to the *)
(* list, home does not show a persisted record in ReportReady, and a       *)
(* deleted record cannot be added again by the save of ReportReady         *)
(***************************************************************************)
C28_ReportReadyIsAssembled ==
    state = REPORT_READY
        => /\ report # NULL
           /\ \E n \in 1..uuids : report.id = randomUUID(n)


\* the load cannot read the slot: it holds text that is no JSON, or a list
\* with a record that cannot be migrated
Unreadable(text) ==
    /\ Truthy(text)
    /\ JSONparses(text) => migrationThrows(JSONparse(text))

(***************************************************************************)
(* C29: when the slot is present but cannot be parsed or migrated, the     *)
(* load exposes an empty collection and leaves the slot untouched; the     *)
(* first save of an absent report after it overwrites the slot with a      *)
(* collection that holds only the new report, so every record persisted    *)
(* before is lost                                                          *)
(***************************************************************************)
C29_UnreadableSlotIsOverwritten ==
    [][ /\ (lastOp'.op = "load" /\ Unreadable(storage))
            => collection' = << >> /\ storage' = storage
        /\ (lastOp'.op = "save" /\ lastOp'.wrote /\ Unreadable(storage))
            => /\ collection' = << report >>
               /\ storage' = JSONstringify(<< report >>) ]_vars

\* a report of this session was saved after the load could not read the
\* slot, and it is all that the collection and the slot now hold
C29_Witness ==
    /\ lastOp.op = "save" /\ lastOp.wrote
    /\ report # NULL /\ report.id = randomUUID(1)
    /\ collection = << report >>
    /\ storage = JSONstringify(<< report >>)


(***************************************************************************)
(* C30: if every encoding and every gateway call resolves in the end,      *)
(* then from AnalyzingImage the workflow eventually reaches                *)
(* IdentityConfirmed or Error, and from SearchingMarket it eventually      *)
(* reaches ReportReady or Error, whatever navigation or reset the user     *)
(* performs in between                                                     *)
(***************************************************************************)
C30_WaitingStatesAreLeft ==
    /\ (state = ANALYZING_IMAGE) ~> (state \in { IDENTITY_CONFIRMED, ERROR })
    /\ (state = SEARCHING_MARKET) ~> (state \in { REPORT_READY, ERROR })

\* an identification resolved after the user had opened the collection and
\* gone back to Idle, and the workflow is in IdentityConfirmed
C30_Witness ==
    /\ lastOp.op = "identified" /\ lastOp.from = IDLE
    /\ state = IDENTITY_CONFIRMED
    /\ uploads = 1

====
